---- MODULE Spec2Model ----
(***************************************************************************)
(* State-machine model of the user controllers of youtube-clone-backend:   *)
(* registerUser, loginUser, generateAccessandRefreshToken,                  *)
(* refreshAccessToken, logoutUser, and the Cloudinary helpers.              *)
(* Every `await` of a handler is one atomic step of the request that runs  *)
(* it; requests interleave at those points.                                 *)
(***************************************************************************)
EXTENDS Integers, Sequences, FiniteSets, TLC

(* ---------------------------------------------------------------- bounds *)
MaxRegs == 2    \* registration requests over a run
MaxReqs == 3    \* requests other than registrations over a run
MaxTime == 2    \* clock ticks

Procs == {1, 2}
Usernames == {"ada", "bob"}
Emails == {"ada@x.com", "bob@x.com"}
Passwords == {"secret1", "secret2"}
Fullnames == {"Ada", "Bob"}
RegPasswords == {"secret1"}

None == "none"

(* ---------------------------------------------------------------- tokens *)
\* Token lifetimes in clock ticks: the access token is short-lived, the
\* refresh token long-lived.
AccessLife == 1
RefreshLife == 2

NoToken == [sub |-> 0, secret |-> "none", iat |-> 0]
Forged == [sub |-> 0, secret |-> "forged", iat |-> 0]

\* jwt.sign: a token is determined by its subject, the secret that signed it
\* and the second it was issued in.
generateAccessToken(uid, t) == [sub |-> uid, secret |-> "ACCESS", iat |-> t]
generateRefreshToken(uid, t) == [sub |-> uid, secret |-> "REFRESH", iat |-> t]

Life(tok) == IF tok.secret = "ACCESS" THEN AccessLife ELSE RefreshLife
Expired(tok, t) == t >= tok.iat + Life(tok)

\* Mutant: the two signing secrets are the same secret.
jwtVerify_OneSecret(tok, secret, t) ==
    tok.secret \in {"ACCESS", "REFRESH"} /\ ~Expired(tok, t)

\* jwt.verify(token, secret): the signature was made with `secret` and the
\* token has not expired.
jwtVerify(tok, secret, t) == tok.secret = secret /\ ~Expired(tok, t)

(* ----------------------------------------------------------------- state *)
NoAsset == [n |-> 0, field |-> "none"]
\* A local temporary file is named by the slot and form field it came in on;
\* an asset's public_id is assigned by the media store, one per upload.
Path(p, field) == [slot |-> p, field |-> field]
NoPath == [slot |-> 0, field |-> "none"]
AssetId(n, field) == [n |-> n, field |-> field]

\* The password field of a document that was not loaded.
NoHash == <<"none", "none">>

NoReq ==
    [kind |-> "none", n |-> 0, form |-> "ok", username |-> None, email |-> None,
     password |-> None, avatar |-> FALSE, cover |-> FALSE, token |-> NoToken,
     uid |-> 0, newPassword |-> None, fullname |-> None]
NoLoc ==
    [avatar |-> NoAsset, coverImage |-> NoAsset, upFailed |-> {}, user |-> 0,
     created |-> 0, createErr |-> "none", delIssued |-> {}, delFailed |-> {},
     accessToken |-> NoToken, refreshToken |-> NoToken, seen |-> NoToken,
     verifiedAt |-> 0, wrote |-> FALSE, fresh |-> FALSE, revoked |-> FALSE,
     current |-> FALSE, displaced |-> FALSE, alone |-> FALSE, seenPw |-> NoHash,
     twin |-> FALSE]
\* No refresh has presented the account's stored credential.
NoPresented == [token |-> NoToken, won |-> 0, closed |-> FALSE, returned |-> NoToken]
NoResp == [status |-> 0, accessToken |-> NoToken, refreshToken |-> NoToken]

VARIABLES
    users,      \* the account collection: users[id] is the row with _id = id
    media,      \* the assets held by the remote media store
    tmpFiles,   \* the local temporary files written by the upload middleware
    now,        \* the clock, in ticks
    nreg,       \* the number of registration requests received so far
    nreq,       \* the number of requests other than registrations received so far
    pc, req, loc, resp,   \* per request slot: position, input, locals, response
    issuedRefresh,  \* the tokens handed out under the name refreshToken
    issuedAccess,   \* the tokens handed out under the name accessToken
    registered,     \* the (username, email) of every registration answered 201
    lastLogin,      \* per account: the refresh token of the latest login, while nothing intervened
    revokedSet,     \* per account: the refresh tokens issued before the latest logout, until a new login
    displacedSet,   \* per account: the stored refresh credentials that were since replaced
    presented       \* per account: the stored credential that refreshes arriving together
                    \* (same tick, before any of them saved) presented, how many
                    \* of them succeeded and what the last one returned

vars ==
    <<users, media, tmpFiles, now, nreg, nreq, pc, req, loc, resp, issuedRefresh,
      issuedAccess, registered, lastLogin, revokedSet, displacedSet, presented>>

store == <<users, media, tmpFiles>>
history ==
    <<issuedRefresh, issuedAccess, registered, lastLogin, revokedSet, displacedSet,
      presented>>

Ids == 1..Len(users)
UserIds == 1..Cardinality(Usernames)

Init ==
    /\ users = <<>>
    /\ media = {}
    /\ tmpFiles = {}
    /\ now = 0
    /\ nreg = 0
    /\ nreq = 0
    /\ pc = [p \in Procs |-> "idle"]
    /\ req = [p \in Procs |-> NoReq]
    /\ loc = [p \in Procs |-> NoLoc]
    /\ resp = [p \in Procs |-> NoResp]
    /\ issuedRefresh = {}
    /\ issuedAccess = {}
    /\ registered = <<>>
    /\ lastLogin = [u \in UserIds |-> NoToken]
    /\ revokedSet = [u \in UserIds |-> {}]
    /\ displacedSet = [u \in UserIds |-> {}]
    /\ presented = [u \in UserIds |-> NoPresented]

InFlight(p) == pc[p] \notin {"idle", "done"}

\* A response is delivered before anything else happens.
Delivered == \A q \in Procs : pc[q] # "done"
At(p, at) == pc[p] = at /\ Delivered

\* A request arrives in slot p with input r and runs up to its first await
\* (next) or to its response (status); l holds its locals. It takes the
\* first free slot. The requests already in flight are no longer alone.
Begin(p, r, l, next, status) ==
    /\ At(p, "idle")
    /\ \A q \in Procs : q < p => pc[q] # "idle"
    /\ IF r.kind = "register"
       THEN nreg < MaxRegs /\ nreg' = nreg + 1 /\ UNCHANGED nreq
       ELSE nreq < MaxReqs /\ nreq' = nreq + 1 /\ UNCHANGED nreg
    /\ req' = [req EXCEPT ![p] = r]
    /\ pc' = [pc EXCEPT ![p] = next]
    /\ resp' = [resp EXCEPT ![p] = [NoResp EXCEPT !.status = status]]
    /\ loc' = [q \in Procs |->
                 IF q = p
                 THEN [l EXCEPT !.alone = /\ r.kind \in {"login", "refresh"}
                                          /\ \A o \in Procs \ {p} : ~InFlight(o)]
                 ELSE [loc[q] EXCEPT !.alone = FALSE]]

Respond(p, status) ==
    /\ pc' = [pc EXCEPT ![p] = "done"]
    /\ resp' = [resp EXCEPT ![p] = [NoResp EXCEPT !.status = status]]

Goto(p, next) ==
    /\ pc' = [pc EXCEPT ![p] = next]
    /\ UNCHANGED resp

\* The response has been delivered; the slot is free again.
Finish(p) ==
    /\ pc[p] = "done"
    /\ pc' = [pc EXCEPT ![p] = "idle"]
    /\ req' = [req EXCEPT ![p] = NoReq]
    /\ loc' = [loc EXCEPT ![p] = NoLoc]
    /\ resp' = [resp EXCEPT ![p] = NoResp]
    /\ UNCHANGED <<store, now, nreg, nreq, history>>

\* The clock is read only when a token is signed or verified: it starts with
\* the first token.
Tick ==
    /\ Delivered
    /\ now < MaxTime
    /\ \/ \E i \in Ids : users[i].refreshToken # NoToken
       \/ \E p \in Procs : loc[p].refreshToken # NoToken
    /\ now' = now + 1
    /\ presented' = [u \in UserIds |-> NoPresented]
    /\ UNCHANGED <<store, nreg, nreq, pc, req, loc, resp, issuedRefresh, issuedAccess,
                   registered, lastLogin, revokedSet, displacedSet>>

(* ------------------------------------------------------------ Cloudinary *)
\* Mutant: the local file is unlinked only after a successful upload.
uploadOnCloudinary_KeepOnError(path, ok, id, files, assets) ==
    IF path = NoPath
    THEN [result |-> NoAsset, threw |-> FALSE, files |-> files, media |-> assets]
    ELSE IF path \notin files
    THEN [result |-> NoAsset, threw |-> TRUE, files |-> files, media |-> assets]
    ELSE IF ok
    THEN [result |-> id, threw |-> FALSE, files |-> files \ {path},
          media |-> assets \cup {id}]
    ELSE [result |-> NoAsset, threw |-> FALSE, files |-> files, media |-> assets]

\* uploadOnCloudinary(localfilepath) on the local files and the remote assets;
\* ok: the remote store accepts the upload and assigns it the public_id id.
\* The result is null (NoAsset) when no path is given or the upload fails;
\* the local file is unlinked on both paths, and unlinking a file that is not
\* there throws out of the catch.
uploadOnCloudinary(path, ok, id, files, assets) ==
    IF path = NoPath
    THEN [result |-> NoAsset, threw |-> FALSE, files |-> files, media |-> assets]
    ELSE IF path \notin files
    THEN [result |-> NoAsset, threw |-> TRUE, files |-> files, media |-> assets]
    ELSE IF ok
    THEN [result |-> id, threw |-> FALSE, files |-> files \ {path},
          media |-> assets \cup {id}]
    ELSE [result |-> NoAsset, threw |-> FALSE, files |-> files \ {path},
          media |-> assets]

\* deleteFromCloudinary(publicId); ok: the remote store carries the destroy
\* out. A failure is logged and swallowed.
deleteFromCloudinary(publicId, ok, assets) ==
    IF ok THEN assets \ {publicId} ELSE assets

(* ------------------------------------------------------ account repository *)
\* The pre-save hook stores the bcrypt hash of the password;
\* isPasswordCorrect compares a plain password with it.
Hash(pw) == <<"bcrypt", pw>>
isPasswordCorrect(row, pw) == row.password = Hash(pw)

NewUser(r, avatar, coverImage) ==
    [fullname |-> r.fullname,
     username |-> r.username, email |-> r.email, password |-> Hash(r.password),
     avatar |-> avatar, coverImage |-> coverImage, refreshToken |-> NoToken]

\* User.findOne({$or: [{username}, {email}]}): the ids of the matching rows.
findOne(rows, username, email) ==
    {i \in 1..Len(rows) :
        \/ (username # None /\ rows[i].username = username)
        \/ (email # None /\ rows[i].email = email)}

\* Mutant: only the username carries a unique index.
UniqueViolation_UsernameOnly(rows, doc) ==
    \E i \in 1..Len(rows) : rows[i].username = doc.username

\* The collection's unique indexes on username and on email reject the insert.
UniqueViolation(rows, doc) ==
    \E i \in 1..Len(rows) :
        rows[i].username = doc.username \/ rows[i].email = doc.email

\* Mutant: the update is applied to every row.
findByIdAndUpdate_EveryRow(rows, id, field, value) ==
    [i \in 1..Len(rows) |-> [rows[i] EXCEPT ![field] = value]]

\* Model.findByIdAndUpdate(id, {$set: {field: value}}): the row whose _id is
\* id, if any, gets the field.
findByIdAndUpdate(rows, id, field, value) ==
    [i \in 1..Len(rows) |->
        IF i = id THEN [rows[i] EXCEPT ![field] = value] ELSE rows[i]]

(* ------------------------------------------------------------ registerUser *)
ValidForm(form) == form = "ok"

\* Lines 9-33: the request arrives with its files written to local temporary
\* storage; the field checks run; the handler awaits User.findOne.
RegStart(p) ==
    \E form \in {"ok", "invalid"},
       u \in Usernames, e \in Emails, pw \in RegPasswords, av \in BOOLEAN, cv \in BOOLEAN :
        /\ form # "ok" => (u = "ada" /\ e = "ada@x.com" /\ ~av)
        /\ cv => av
        /\ LET r == [NoReq EXCEPT !.kind = "register", !.n = nreg + 1, !.form = form,
                                  !.username = u, !.email = e, !.password = pw,
                                  !.fullname = IF u = "ada" THEN "Ada" ELSE "Bob",
                                  !.avatar = av, !.cover = cv]
           IN  /\ IF ValidForm(form)
                  THEN Begin(p, r, NoLoc, "reg_findOne", 0)
                  ELSE Begin(p, r, NoLoc, "done", 400)
               /\ tmpFiles' = tmpFiles
                     \cup (IF av THEN {Path(p, "avatar")} ELSE {})
                     \cup (IF cv THEN {Path(p, "cover")} ELSE {})
        /\ UNCHANGED <<users, media, now, history>>

\* Lines 33-55: the pre-check for an existing user, then the avatar path.
RegFindOne(p) ==
    /\ At(p, "reg_findOne")
    /\ IF findOne(users, req[p].username, req[p].email) # {}
       THEN Respond(p, 409)
       ELSE IF ~req[p].avatar
       THEN Respond(p, 400)
       ELSE Goto(p, "reg_avatar")
    /\ UNCHANGED <<store, now, nreg, nreq, req, loc, history>>

\* Lines 53-66: uploadOnCloudinary(avatarLocalPath) has settled.
RegUploadAvatar(p) ==
    /\ At(p, "reg_avatar")
    /\ \E ok \in BOOLEAN :
        LET r == uploadOnCloudinary(Path(p, "avatar"), ok,
                                    AssetId(req[p].n, "avatar"), tmpFiles, media)
        IN  /\ tmpFiles' = r.files
            /\ media' = r.media
            /\ IF r.threw
               THEN Respond(p, 500) /\ UNCHANGED loc
               ELSE /\ Goto(p, "reg_cover")
                    /\ loc' = [loc EXCEPT
                          ![p].avatar = r.result,
                          ![p].upFailed = IF r.result = NoAsset THEN {"avatar"} ELSE {}]
    /\ UNCHANGED <<users, now, nreg, nreq, req, history>>

\* Mutant: the catch block answers 500 without deleting the images.
CatchEntry_NoRollback(p, avatar, coverImage) ==
    Respond(p, 500)

\* The catch block of lines 96-106 up to its first await: which image is
\* deleted first, or the 500 when there is none.
CatchEntry(p, avatar, coverImage) ==
    IF avatar # NoAsset
    THEN Goto(p, "reg_del_avatar")
    ELSE IF coverImage # NoAsset
    THEN Goto(p, "reg_del_cover")
    ELSE Respond(p, 500)

\* Mutant: a cover upload that returns null is answered 400.
RegUploadCover_RequireCover(p) ==
    /\ At(p, "reg_cover")
    /\ \E ok \in BOOLEAN :
        LET path == IF req[p].cover THEN Path(p, "cover") ELSE NoPath
            r == uploadOnCloudinary(path, ok, AssetId(req[p].n, "cover"), tmpFiles, media)
        IN  /\ tmpFiles' = r.files
            /\ media' = r.media
            /\ IF r.threw \/ (path # NoPath /\ r.result = NoAsset)
               THEN Respond(p, 400) /\ UNCHANGED loc
               ELSE /\ loc' = [loc EXCEPT ![p].coverImage = r.result]
                    /\ IF loc[p].avatar = NoAsset
                       THEN CatchEntry(p, loc[p].avatar, r.result)
                       ELSE Goto(p, "reg_create")
    /\ UNCHANGED <<users, now, nreg, nreq, req, history>>

\* Lines 64-84: uploadOnCloudinary(coverLocalPath) has settled; a null result
\* is not an error. Building the document reads avatar.url, which throws
\* into the catch block when the avatar upload returned null.
RegUploadCover(p) ==
    /\ At(p, "reg_cover")
    /\ \E ok \in BOOLEAN :
        LET path == IF req[p].cover THEN Path(p, "cover") ELSE NoPath
            r == uploadOnCloudinary(path, ok, AssetId(req[p].n, "cover"), tmpFiles, media)
        IN  /\ tmpFiles' = r.files
            /\ media' = r.media
            /\ IF r.threw
               THEN Respond(p, 400) /\ UNCHANGED loc
               ELSE /\ loc' = [loc EXCEPT
                          ![p].coverImage = r.result,
                          ![p].upFailed = @ \cup
                              (IF path # NoPath /\ r.result = NoAsset THEN {"cover"} ELSE {})]
                    /\ IF loc[p].avatar = NoAsset
                       THEN CatchEntry(p, loc[p].avatar, r.result)
                       ELSE Goto(p, "reg_create")
    /\ UNCHANGED <<users, now, nreg, nreq, req, history>>

\* Lines 77-86: User.create has settled.
RegCreate(p) ==
    /\ At(p, "reg_create")
    /\ LET doc == NewUser(req[p], loc[p].avatar, loc[p].coverImage)
       IN  IF ~UniqueViolation(users, doc)
           THEN /\ users' = Append(users, doc)
                /\ loc' = [loc EXCEPT ![p].created = Len(users) + 1]
                /\ Goto(p, "reg_refetch")
           ELSE /\ UNCHANGED users
                /\ loc' = [loc EXCEPT ![p].createErr = "dup"]
                /\ CatchEntry(p, loc[p].avatar, loc[p].coverImage)
    /\ UNCHANGED <<media, tmpFiles, now, nreg, nreq, req, history>>

\* Lines 86-95: User.findById(user._id) has settled; found: it returned the row.
RegRefetch(p) ==
    /\ At(p, "reg_refetch")
    /\ \E found \in BOOLEAN :
        IF found
        THEN /\ Respond(p, 201)
             /\ registered' = Append(registered,
                    [username |-> req[p].username, email |-> req[p].email])
        ELSE /\ CatchEntry(p, loc[p].avatar, loc[p].coverImage)
             /\ UNCHANGED registered
    /\ UNCHANGED <<store, now, nreg, nreq, req, loc, issuedRefresh, issuedAccess,
                   lastLogin, revokedSet, displacedSet, presented>>

\* Mutant: a failed delete of the avatar escapes the catch block, so the
\* cover is not deleted.
RegDelAvatar_FailFast(p) ==
    /\ At(p, "reg_del_avatar")
    /\ \E ok \in BOOLEAN :
        /\ media' = deleteFromCloudinary(loc[p].avatar, ok, media)
        /\ loc' = [loc EXCEPT
              ![p].delIssued = @ \cup {loc[p].avatar},
              ![p].delFailed = IF ok THEN @ ELSE @ \cup {loc[p].avatar}]
        /\ IF ok /\ loc[p].coverImage # NoAsset
           THEN Goto(p, "reg_del_cover")
           ELSE Respond(p, 500)
    /\ UNCHANGED <<users, tmpFiles, now, nreg, nreq, req, history>>

\* Lines 98-103: deleteFromCloudinary(avatar.public_id) has settled.
RegDelAvatar(p) ==
    /\ At(p, "reg_del_avatar")
    /\ \E ok \in BOOLEAN :
        /\ media' = deleteFromCloudinary(loc[p].avatar, ok, media)
        /\ loc' = [loc EXCEPT
              ![p].delIssued = @ \cup {loc[p].avatar},
              ![p].delFailed = IF ok THEN @ ELSE @ \cup {loc[p].avatar}]
    /\ IF loc[p].coverImage # NoAsset
       THEN Goto(p, "reg_del_cover")
       ELSE Respond(p, 500)
    /\ UNCHANGED <<users, tmpFiles, now, nreg, nreq, req, history>>

\* Lines 101-104: deleteFromCloudinary(coverImage.public_id) has settled.
RegDelCover(p) ==
    /\ At(p, "reg_del_cover")
    /\ \E ok \in BOOLEAN :
        /\ media' = deleteFromCloudinary(loc[p].coverImage, ok, media)
        /\ loc' = [loc EXCEPT
              ![p].delIssued = @ \cup {loc[p].coverImage},
              ![p].delFailed = IF ok THEN @ ELSE @ \cup {loc[p].coverImage}]
    /\ Respond(p, 500)
    /\ UNCHANGED <<users, tmpFiles, now, nreg, nreq, req, history>>

(* --------------------------------------------- generateAccessandRefreshToken *)
\* Mutant: each name gets the token of its own issuer.
GenTokens_Unswapped(uid, t) ==
    [accessToken |-> generateAccessToken(uid, t),
     refreshToken |-> generateRefreshToken(uid, t)]

\* Lines 115-116: the pair as the helper names it.
GenTokens(uid, t) ==
    [accessToken |-> generateRefreshToken(uid, t),
     refreshToken |-> generateAccessToken(uid, t)]

RespondTokens(p) ==
    /\ pc' = [pc EXCEPT ![p] = "done"]
    /\ resp' = [resp EXCEPT ![p] = [status |-> 200, accessToken |-> loc[p].accessToken,
                                    refreshToken |-> loc[p].refreshToken]]
    /\ issuedRefresh' = issuedRefresh \cup {loc[p].refreshToken}
    /\ issuedAccess' = issuedAccess \cup {loc[p].accessToken}

\* Lines 111-119: User.findById(userId) has settled; the tokens are signed and
\* the refresh token is set on the loaded document, which is then saved.
GenFindById(p) ==
    /\ At(p, "gen_find")
    /\ IF loc[p].user \notin Ids
       THEN Respond(p, 500) /\ UNCHANGED loc
       ELSE LET t == GenTokens(loc[p].user, now)
            IN  /\ loc' = [loc EXCEPT ![p].accessToken = t.accessToken,
                                      ![p].refreshToken = t.refreshToken]
                /\ Goto(p, "gen_save")
    /\ UNCHANGED <<store, now, nreg, nreq, req, history>>

\* Lines 119-120: user.save({validateBeforeSave: false}) has settled and the
\* helper returns: loginUser goes on to await User.findById (line 157),
\* refreshAccessToken responds (lines 198-206).
GenSave(p) ==
    /\ At(p, "gen_save")
    /\ LET uid == loc[p].user
           old == users[uid].refreshToken
       IN  /\ users' = findByIdAndUpdate(users, uid, "refreshToken", loc[p].refreshToken)
           /\ loc' = [loc EXCEPT ![p].wrote = TRUE]
           /\ displacedSet' = [displacedSet EXCEPT ![uid] =
                  IF old # NoToken /\ old # loc[p].refreshToken THEN @ \cup {old} ELSE @]
           /\ lastLogin' = [lastLogin EXCEPT ![uid] = NoToken]
           /\ revokedSet' = [revokedSet EXCEPT ![uid] =
                  IF req[p].kind = "login" THEN {} ELSE @]
           /\ presented' = [presented EXCEPT ![uid] =
                  IF req[p].kind = "login" THEN NoPresented
                  ELSE IF @.token # req[p].token THEN @
                  ELSE [@ EXCEPT !.won = IF @ < 2 THEN @ + 1 ELSE @,
                                 !.closed = TRUE,
                                 !.returned = loc[p].refreshToken]]
    /\ IF req[p].kind = "login"
       THEN Goto(p, "login_refetch") /\ UNCHANGED <<issuedRefresh, issuedAccess>>
       ELSE RespondTokens(p)
    /\ UNCHANGED <<media, tmpFiles, now, nreg, nreq, req, registered>>

(* --------------------------------------------------------------- loginUser *)
\* The regular expression of line 138 on the values the model uses.
EmailOk(e) == e \in Emails

\* Lines 129-145: the request arrives, the input checks run, the handler
\* awaits User.findOne.
LoginStart(p) ==
    \E u \in Usernames \cup {None}, e \in Emails \cup {None, "bad"},
       pw \in Passwords \cup {None} :
        /\ u # None => e = None
        /\ LET r == [NoReq EXCEPT !.kind = "login", !.username = u, !.email = e,
                                  !.password = pw]
           IN  IF (e = None /\ u = None) \/ pw = None
               THEN Begin(p, r, NoLoc, "done", 400)
               ELSE IF e # None /\ ~EmailOk(e)
               THEN Begin(p, r, NoLoc, "done", 400)
               ELSE Begin(p, r, NoLoc, "login_findOne", 0)
        /\ UNCHANGED <<store, now, history>>

Min(S) == CHOOSE x \in S : \A y \in S : x <= y

\* Mutant: the password is not compared.
LoginFindOne_NoPasswordCheck(p) ==
    /\ At(p, "login_findOne")
    /\ LET m == findOne(users, req[p].username, req[p].email)
       IN  IF m = {}
           THEN Respond(p, 404) /\ UNCHANGED loc
           ELSE /\ loc' = [loc EXCEPT ![p].user = Min(m),
                                      ![p].seenPw = users[Min(m)].password]
                /\ Goto(p, "gen_find")
    /\ UNCHANGED <<store, now, nreg, nreq, req, history>>

\* Lines 143-155: User.findOne has settled, then user.isPasswordCorrect, which
\* compares with the document findOne loaded (user, seenPw); on a match the
\* handler enters generateAccessandRefreshToken and awaits its User.findById.
LoginFindOne(p) ==
    /\ At(p, "login_findOne")
    /\ LET m == findOne(users, req[p].username, req[p].email)
       IN  IF m = {}
           THEN Respond(p, 404) /\ UNCHANGED loc
           ELSE /\ loc' = [loc EXCEPT ![p].user = Min(m),
                                      ![p].seenPw = users[Min(m)].password]
                /\ IF ~isPasswordCorrect(users[Min(m)], req[p].password)
                   THEN Respond(p, 401)
                   ELSE Goto(p, "gen_find")
    /\ UNCHANGED <<store, now, nreg, nreq, req, history>>

\* Lines 157-172: User.findById has settled; the response carries the pair.
LoginRefetch(p) ==
    /\ At(p, "login_refetch")
    /\ RespondTokens(p)
    /\ lastLogin' = [lastLogin EXCEPT ![loc[p].user] =
           IF loc[p].alone THEN loc[p].refreshToken ELSE NoToken]
    /\ UNCHANGED <<store, now, nreg, nreq, req, loc, registered, revokedSet, displacedSet,
                   presented>>

(* ------------------------------------------------------ refreshAccessToken *)
\* Lines 176-186: the request arrives with a token (or none); jwt.verify runs
\* against the refresh secret inside the try, whose catch answers 500; the
\* handler awaits User.findById(decodedToken._id).
RefreshStart(p) ==
    \E tok \in issuedRefresh \cup issuedAccess \cup {NoToken, Forged} :
        LET uid == tok.sub
            known == uid \in Ids
            r == [NoReq EXCEPT !.kind = "refresh", !.token = tok]
            l == [NoLoc EXCEPT
                    !.verifiedAt = now,
                    !.user = uid,
                    !.fresh = known /\ lastLogin[uid] = tok,
                    !.revoked = known /\ tok \in revokedSet[uid],
                    !.current = known /\ users[uid].refreshToken = tok,
                    !.displaced = known /\ tok \in displacedSet[uid]
                                        /\ users[uid].refreshToken # tok,
                    !.twin = /\ known /\ users[uid].refreshToken = tok
                             /\ presented[uid].token = tok /\ ~presented[uid].closed]
        IN  /\ IF tok = NoToken
               THEN Begin(p, r, l, "done", 401)
               ELSE IF ~jwtVerify(tok, "REFRESH", now)
               THEN Begin(p, r, l, "done", 500)
               ELSE Begin(p, r, l, "refresh_find", 0)
            /\ lastLogin' = IF known THEN [lastLogin EXCEPT ![uid] = NoToken] ELSE lastLogin
            /\ presented' =
                  IF known /\ users[uid].refreshToken = tok
                  THEN [presented EXCEPT ![uid] =
                           IF @.token = tok /\ ~@.closed
                           THEN @
                           ELSE [NoPresented EXCEPT !.token = tok]]
                  ELSE presented
            /\ UNCHANGED <<store, now, issuedRefresh, issuedAccess, registered,
                           revokedSet, displacedSet>>

\* Mutant: the presented token is not compared with the stored one.
RefreshFind_NoCompare(p) ==
    /\ At(p, "refresh_find")
    /\ IF loc[p].user \notin Ids
       THEN Respond(p, 500) /\ UNCHANGED loc
       ELSE /\ loc' = [loc EXCEPT ![p].seen = users[loc[p].user].refreshToken]
            /\ Goto(p, "gen_find")
    /\ UNCHANGED <<store, now, nreg, nreq, req, history>>

\* Lines 186-197: User.findById has settled; the account must exist and hold
\* the presented token. Both 401s are thrown inside the try and answered as
\* 500 by its catch. Otherwise the handler enters
\* generateAccessandRefreshToken and awaits its User.findById.
RefreshFind(p) ==
    /\ At(p, "refresh_find")
    /\ IF loc[p].user \notin Ids
       THEN Respond(p, 500) /\ UNCHANGED loc
       ELSE /\ loc' = [loc EXCEPT ![p].seen = users[loc[p].user].refreshToken]
            /\ IF req[p].token # users[loc[p].user].refreshToken
               THEN Respond(p, 500)
               ELSE Goto(p, "gen_find")
    /\ UNCHANGED <<store, now, nreg, nreq, req, history>>

(* -------------------------------------------------------------- logoutUser *)
\* Line 213: findByIdAndUpdate is called with the $set object in the place of
\* the id and {new: true} in the place of the update.
NotAnId == 0

\* Line 213: the request of an authenticated account arrives; the handler
\* awaits User.findByIdAndUpdate.
LogoutStart(p) ==
    \E uid \in Ids :
        /\ Begin(p, [NoReq EXCEPT !.kind = "logout", !.uid = uid], NoLoc,
                 "logout_update", 0)
        /\ lastLogin' = [lastLogin EXCEPT ![uid] = NoToken]
        /\ UNCHANGED <<store, now, issuedRefresh, issuedAccess, registered,
                       revokedSet, displacedSet, presented>>

\* Lines 213-227: User.findByIdAndUpdate has settled: resolved (200, cookies
\* cleared) or rejected (the error handler's 500).
LogoutUpdate(p) ==
    /\ At(p, "logout_update")
    /\ users' = findByIdAndUpdate(users, NotAnId, "refreshToken", NoToken)
    /\ \E status \in {200, 500} : Respond(p, status)
    /\ revokedSet' = [revokedSet EXCEPT ![req[p].uid] =
           {t \in issuedRefresh \cup issuedAccess : t.sub = req[p].uid}]
    /\ UNCHANGED <<media, tmpFiles, now, nreg, nreq, req, loc, issuedRefresh,
                   issuedAccess, registered, lastLogin, displacedSet, presented>>

(* --------------------------------------------------- changeCurrentPassword *)
\* Lines 231-232: the request of an authenticated account arrives with
\* currentPassword (password) and newPassword; the handler awaits
\* User.findById(req.user._id).
ChangeStart(p) ==
    \E uid \in Ids, cur \in Passwords, new \in Passwords :
        /\ Begin(p, [NoReq EXCEPT !.kind = "change", !.uid = uid, !.password = cur,
                                  !.newPassword = new],
                 NoLoc, "chg_find", 0)
        /\ UNCHANGED <<store, now, history>>

\* Mutant: currentPassword is not verified.
ChangeFind_NoVerify(p) ==
    /\ At(p, "chg_find")
    /\ loc' = [loc EXCEPT ![p].user = req[p].uid,
                          ![p].seenPw = users[req[p].uid].password]
    /\ Goto(p, "chg_save")
    /\ UNCHANGED <<store, now, nreg, nreq, req, history>>

\* Lines 232-238: User.findById has settled, then user.isPasswordCorrect on
\* the loaded document; on a match the new password is set on the document
\* and the handler awaits user.save.
ChangeFind(p) ==
    /\ At(p, "chg_find")
    /\ loc' = [loc EXCEPT ![p].user = req[p].uid,
                          ![p].seenPw = users[req[p].uid].password]
    /\ IF ~isPasswordCorrect(users[req[p].uid], req[p].password)
       THEN Respond(p, 401)
       ELSE Goto(p, "chg_save")
    /\ UNCHANGED <<store, now, nreg, nreq, req, history>>

\* Lines 238-239: user.save({validateBeforeSave: false}) has settled: the
\* modified password path is written, hashed by the pre-save hook.
ChangeSave(p) ==
    /\ At(p, "chg_save")
    /\ users' = findByIdAndUpdate(users, loc[p].user, "password", Hash(req[p].newPassword))
    /\ loc' = [loc EXCEPT ![p].wrote = TRUE]
    /\ Respond(p, 200)
    /\ UNCHANGED <<media, tmpFiles, now, nreg, nreq, req, history>>

(* ---------------------------------------------------- updateAccountDetails *)
\* Lines 246-262: the request of an authenticated account arrives with
\* fullname and email; after the presence check the handler builds the
\* User.findByIdAndUpdate query and, without awaiting or executing it,
\* responds 200 in the same turn. A query that is never awaited or exec'd is
\* never sent, so no row is written.
UpdateAccountDetails(p) ==
    \E uid \in Ids, fn \in Fullnames \cup {None}, e \in Emails \cup {None} :
        /\ LET r == [NoReq EXCEPT !.kind = "update", !.uid = uid, !.fullname = fn,
                                  !.email = e]
           IN  IF fn = None \/ e = None
               THEN Begin(p, r, NoLoc, "done", 400)
               ELSE Begin(p, r, NoLoc, "done", 200)
        /\ UNCHANGED <<store, now, history>>

(* ---------------------------------------------------------- specifications *)
RegNext ==
    \E p \in Procs :
        \/ RegStart(p) \/ RegFindOne(p) \/ RegUploadAvatar(p) \/ RegUploadCover(p)
        \/ RegCreate(p) \/ RegRefetch(p) \/ RegDelAvatar(p) \/ RegDelCover(p)
        \/ Finish(p)

AuthNext ==
    \/ Tick
    \/ \E p \in Procs :
        \/ LoginStart(p) \/ LoginFindOne(p) \/ GenFindById(p) \/ GenSave(p)
        \/ LoginRefetch(p) \/ RefreshStart(p) \/ RefreshFind(p)
        \/ LogoutStart(p) \/ LogoutUpdate(p)
        \/ Finish(p)

PwNext ==
    \E p \in Procs :
        \/ LoginStart(p) \/ LoginFindOne(p) \/ GenFindById(p) \/ GenSave(p)
        \/ LoginRefetch(p)
        \/ ChangeStart(p) \/ ChangeFind(p) \/ ChangeSave(p)
        \/ UpdateAccountDetails(p)
        \/ Finish(p)

Next == RegNext \/ AuthNext \/ PwNext

\* The whole program, from an empty account collection.
Spec == Init /\ [][Next]_vars

\* Registration alone.
RegSpec == Init /\ [][RegNext]_vars

\* The accounts k earlier registrations left in the collection.
Registered(k) ==
    [i \in 1..k |->
        NewUser([fullname |-> IF i = 1 THEN "Ada" ELSE "Bob",
                 username |-> IF i = 1 THEN "ada" ELSE "bob",
                 email |-> IF i = 1 THEN "ada@x.com" ELSE "bob@x.com",
                 password |-> "secret1"],
                AssetId(i, "avatar"), NoAsset)]

AuthInit ==
    /\ \E k \in UserIds :
        /\ users = Registered(k)
        /\ media = {AssetId(i, "avatar") : i \in 1..k}
        /\ nreg = k
        /\ registered = [i \in 1..k |->
               [username |-> users[i].username, email |-> users[i].email]]
    /\ tmpFiles = {}
    /\ now = 0
    /\ nreq = 0
    /\ pc = [p \in Procs |-> "idle"]
    /\ req = [p \in Procs |-> NoReq]
    /\ loc = [p \in Procs |-> NoLoc]
    /\ resp = [p \in Procs |-> NoResp]
    /\ issuedRefresh = {}
    /\ issuedAccess = {}
    /\ lastLogin = [u \in UserIds |-> NoToken]
    /\ revokedSet = [u \in UserIds |-> {}]
    /\ displacedSet = [u \in UserIds |-> {}]
    /\ presented = [u \in UserIds |-> NoPresented]

\* Login, refresh and logout on a collection that holds registered accounts.
AuthSpec == AuthInit /\ [][AuthNext]_vars

\* Login, password change and account-details update on a collection that
\* holds registered accounts.
PwSpec == AuthInit /\ [][PwNext]_vars

(* ------------------------------------------------------------------ claims *)
Done(p, kind) == pc[p] = "done" /\ req[p].kind = kind
Uploaded(p) == {loc[p].avatar, loc[p].coverImage} \ {NoAsset}
RegFailed(p) == Done(p, "register") /\ resp[p].status # 201

C2_AllOrNothing ==
    \A p \in Procs : RegFailed(p) => loc[p].created \notin Ids

\* C3: when a cover path is present and the cover upload fails after the
\* avatar upload succeeded, the registration fails with an upload error,
\* creates no account, and the avatar has been deleted.
C3_CoverUploadFailure ==
    \A p \in Procs :
        (/\ Done(p, "register")
         /\ req[p].cover
         /\ loc[p].avatar # NoAsset
         /\ "cover" \in loc[p].upFailed) =>
            /\ resp[p].status \in {400, 500}
            /\ loc[p].created = 0
            /\ loc[p].avatar \notin media

\* C4: no two account rows share a username or an email, and no two
\* registrations answered with success share a username or an email.
C4_Uniqueness ==
    /\ \A i, j \in Ids :
        i # j => /\ users[i].username # users[j].username
                 /\ users[i].email # users[j].email
    /\ \A i, j \in 1..Len(registered) :
        i # j => /\ registered[i].username # registered[j].username
                 /\ registered[i].email # registered[j].email

\* Two registrations for the same identity raced past the pre-check; one was
\* answered with success and the other was rejected by create.
C4_Witness ==
    \E p \in Procs :
        /\ RegFailed(p)
        /\ loc[p].createErr = "dup"
        /\ \E i \in 1..Len(registered) :
            \/ registered[i].username = req[p].username
            \/ registered[i].email = req[p].email

\* C5: a registration that passed the pre-check and whose create was
\* rejected on the uniqueness constraint is answered 409.
C5_RaceLoserConflict ==
    \A p \in Procs :
        (Done(p, "register") /\ loc[p].createErr = "dup") => resp[p].status = 409

C7_LoginTokenAccepted ==
    \A p \in Procs :
        (/\ Done(p, "refresh")
         /\ loc[p].fresh
         /\ loc[p].alone
         /\ ~Expired(req[p].token, loc[p].verifiedAt)) =>
            /\ resp[p].status = 200
            /\ resp[p].accessToken # NoToken
            /\ resp[p].refreshToken # NoToken
            /\ users[req[p].token.sub].refreshToken = resp[p].refreshToken

\* C8: the step that completes a logout leaves the account's stored refresh
\* credential absent and every other account's stored refresh credential as
\* it was.
C8_LogoutClears ==
    [][\A p \in Procs :
          (pc[p] = "logout_update" /\ pc'[p] = "done") =>
              /\ users'[req[p].uid].refreshToken = NoToken
              /\ \A i \in Ids \ {req[p].uid} :
                    users'[i].refreshToken = users[i].refreshToken]_vars

\* C9: a refresh that presents a token issued for an account before that
\* account's latest logout, with no login on the account since, fails and
\* returns no token.
C9_LogoutRevokes ==
    \A p \in Procs :
        (/\ Done(p, "refresh")
         /\ loc[p].revoked
         /\ req[p].token \in revokedSet[req[p].token.sub]) =>
            /\ resp[p].status # 200
            /\ resp[p].refreshToken = NoToken

\* After a logout, a token issued before it, still unexpired and validly
\* signed, was presented and compared with the stored credential, and the
\* refresh failed.
C9_Witness ==
    \E p \in Procs :
        /\ Done(p, "refresh")
        /\ loc[p].revoked
        /\ req[p].token \in revokedSet[req[p].token.sub]
        /\ jwtVerify(req[p].token, "REFRESH", loc[p].verifiedAt)
        /\ loc[p].seen # NoToken
        /\ resp[p].status # 200

\* C10: a refresh succeeds only if the presented token verifies against the
\* refresh secret, is unexpired and equals the credential stored on the
\* account it names; a refresh that does not succeed returns no token and
\* has written no account's stored credential.
C10_RefreshOnlyIfValid ==
    \A p \in Procs :
        Done(p, "refresh") =>
            IF resp[p].status = 200
            THEN /\ req[p].token.secret = "REFRESH"
                 /\ ~Expired(req[p].token, loc[p].verifiedAt)
                 /\ req[p].token = loc[p].seen
            ELSE /\ resp[p].accessToken = NoToken
                 /\ resp[p].refreshToken = NoToken
                 /\ ~loc[p].wrote

\* A validly signed, unexpired token that is not the stored credential was
\* presented; the refresh failed, returned nothing and wrote nothing.
C10_Witness ==
    \E p \in Procs :
        /\ Done(p, "refresh")
        /\ jwtVerify(req[p].token, "REFRESH", loc[p].verifiedAt)
        /\ loc[p].seen # NoToken
        /\ loc[p].seen # req[p].token
        /\ resp[p].status # 200
        /\ ~loc[p].wrote

\* C11: refresh failures are typed. A refresh without a token is answered
\* 401; a token whose signature or expiry check fails is rejected; a validly
\* signed, unexpired token whose account is gone or whose value is not the
\* one stored on the account is answered 401.
C11_RefreshFailuresTyped ==
    \A p \in Procs :
        Done(p, "refresh") =>
            IF req[p].token = NoToken
            THEN resp[p].status = 401
            ELSE IF ~jwtVerify(req[p].token, "REFRESH", loc[p].verifiedAt)
            THEN resp[p].status # 200
            ELSE (loc[p].user \notin Ids \/ loc[p].seen # req[p].token) =>
                    resp[p].status = 401

\* C12: a login that names an existing account succeeds and returns an
\* access/refresh token pair when the submitted password matches the stored
\* hash; with any other password it is answered 401, returns no token and
\* stores none.
C12_LoginRequiresMatch ==
    \A p \in Procs :
        (Done(p, "login") /\ loc[p].user \in Ids) =>
            IF loc[p].seenPw = Hash(req[p].password)
            THEN /\ resp[p].status = 200
                 /\ resp[p].accessToken # NoToken
                 /\ resp[p].refreshToken # NoToken
            ELSE /\ resp[p].status = 401
                 /\ resp[p].accessToken = NoToken
                 /\ resp[p].refreshToken = NoToken
                 /\ loc[p].refreshToken = NoToken
                 /\ ~loc[p].wrote

\* A login named an existing account with a password that is not its own
\* and was answered 401.
C12_Witness ==
    \E p \in Procs :
        /\ Done(p, "login")
        /\ loc[p].user \in Ids
        /\ loc[p].seenPw # Hash(req[p].password)
        /\ resp[p].status = 401

\* C13: in every token pair a login or a refresh returns, the value returned
\* as access token was produced by the access-token issuer, and the value
\* returned as refresh token, which is the one the helper stored, was
\* produced by the refresh-token issuer.
C13_IssuersNotSwapped ==
    \A p \in Procs :
        (/\ pc[p] = "done"
         /\ req[p].kind \in {"login", "refresh"}
         /\ resp[p].status = 200) =>
            /\ \E t \in 0..MaxTime :
                  resp[p].accessToken = generateAccessToken(loc[p].user, t)
            /\ \E t \in 0..MaxTime :
                  resp[p].refreshToken = generateRefreshToken(loc[p].user, t)
            /\ loc[p].wrote /\ loc[p].refreshToken = resp[p].refreshToken

C15_AvatarUploadFailure ==
    \A p \in Procs :
        (Done(p, "register") /\ "avatar" \in loc[p].upFailed) =>
            /\ resp[p].status = 500
            /\ loc[p].created = 0
            /\ loc[p].coverImage = NoAsset
            /\ "cover" \notin loc[p].upFailed
            /\ loc[p].delIssued = {}

\* C16: when create or the re-fetch has failed and a compensating delete
\* itself fails, a delete has still been issued for every other uploaded
\* asset and the registration is answered 500.
C16_RollbackBestEffort ==
    \A p \in Procs :
        (/\ Done(p, "register")
         /\ (loc[p].createErr = "dup" \/ (loc[p].created # 0 /\ resp[p].status # 201))
         /\ loc[p].delFailed # {}) =>
            /\ Uploaded(p) \subseteq loc[p].delIssued
            /\ resp[p].status = 500

\* After a failed create or re-fetch the delete of the avatar failed; the
\* delete of the cover was still issued and the answer is 500.
C16_Witness ==
    \E p \in Procs :
        /\ Done(p, "register")
        /\ (loc[p].createErr = "dup" \/ loc[p].created # 0)
        /\ loc[p].avatar \in loc[p].delFailed
        /\ loc[p].coverImage # NoAsset
        /\ loc[p].coverImage \in loc[p].delIssued
        /\ resp[p].status = 500

UploadSettled(p, f) ==
    /\ req[p].kind = "register"
    /\ \/ f \in loc[p].upFailed
       \/ (f = "avatar" /\ loc[p].avatar # NoAsset)
       \/ (f = "cover" /\ loc[p].coverImage # NoAsset)

\* C18: once uploadOnCloudinary has settled on a local path, whether the
\* upload succeeded or failed, the local temporary file at that path is gone.
C18_TempFileRemoved ==
    \A p \in Procs : \A f \in {"avatar", "cover"} :
        UploadSettled(p, f) => Path(p, f) \notin tmpFiles

\* A registration whose avatar upload failed and whose cover upload
\* succeeded has been answered, and neither temporary file is left.
C18_Witness ==
    \E p \in Procs :
        /\ Done(p, "register")
        /\ "avatar" \in loc[p].upFailed
        /\ loc[p].coverImage # NoAsset
        /\ Path(p, "avatar") \notin tmpFiles
        /\ Path(p, "cover") \notin tmpFiles

\* C19: a step changes an account's stored password only if it is the save
\* of a changeCurrentPassword request for that account whose currentPassword
\* matched the stored hash when it was verified, and the new stored password
\* is the hash of its newPassword; a changeCurrentPassword whose
\* currentPassword does not match the stored hash is answered 401 and its
\* step leaves every stored password as it was.
C19_PasswordChangeGuarded ==
    [][/\ \A i \in Ids :
            users'[i].password # users[i].password =>
                \E p \in Procs :
                    /\ req[p].kind = "change" /\ req[p].uid = i
                    /\ pc[p] = "chg_save" /\ pc'[p] = "done"
                    /\ loc[p].seenPw = Hash(req[p].password)
                    /\ users'[i].password = Hash(req[p].newPassword)
       /\ \A p \in Procs :
            (/\ pc[p] = "chg_find" /\ pc'[p] # "chg_find"
             /\ users[req[p].uid].password # Hash(req[p].password)) =>
                /\ pc'[p] = "done"
                /\ resp'[p].status = 401
                /\ users' = users]_vars

\* After an accepted change of an account's password, a change request that
\* submits the old password as currentPassword was answered 401: the stored
\* password is still the one set by the accepted change.
C19_Witness ==
    \E p \in Procs :
        /\ Done(p, "change")
        /\ resp[p].status = 401
        /\ req[p].password = "secret1"
        /\ req[p].newPassword = "secret1"
        /\ users[req[p].uid].password = Hash("secret2")
        /\ ~loc[p].wrote

\* C20: of the refresh requests that arrive together presenting the same
\* currently stored refresh credential of an account, at most one succeeds,
\* and once none of them is in flight the account's stored credential is the
\* refresh token the one that succeeded returned.
C20_AtMostOneRefreshWins ==
    \A uid \in Ids :
        /\ presented[uid].won <= 1
        /\ (/\ presented[uid].won = 1
            /\ \A q \in Procs :
                  ~(/\ InFlight(q) /\ req[q].kind = "refresh"
                    /\ req[q].token = presented[uid].token)) =>
                users[uid].refreshToken = presented[uid].returned

\* A second refresh presenting the account's stored credential arrived
\* together with a first one; it has been answered, neither succeeded and
\* the stored credential is unchanged.
C20_Witness ==
    \E p \in Procs :
        /\ Done(p, "refresh")
        /\ loc[p].twin
        /\ loc[p].current
        /\ resp[p].status # 200
        /\ presented[loc[p].user].won = 0
        /\ users[loc[p].user].refreshToken = req[p].token

\* C21: when updateAccountDetails has answered 200 for a submitted fullname
\* and email, the account's stored fullname and email are the submitted
\* values.
C21_UpdateApplied ==
    \A p \in Procs :
        (Done(p, "update") /\ resp[p].status = 200) =>
            /\ users[req[p].uid].fullname = req[p].fullname
            /\ users[req[p].uid].email = req[p].email

====
